---- MODULE Spec2Model ----
(***************************************************************************)
(* Model of the market-making strategy of src/fixfi.py:                    *)
(*   - OrderType and its two named constructors,                           *)
(*   - SimpleMarketMaker: the price history, the Monte Carlo forecaster    *)
(*     simulate_future_price and the per-tick operation update.            *)
(* Python floats are modelled as exact rationals <<numerator, denominator>>*)
(* (denominator > 0, lowest terms): rounding error of IEEE doubles is not  *)
(* modelled, the order of the arithmetic operations is kept.               *)
(***************************************************************************)
EXTENDS Integers, Sequences, FiniteSets, TLC

VARIABLES
    price_history,  \* SimpleMarketMaker.price_history
    window,         \* the same history kept as a sliding window (spec section 3)
    inventory,      \* the harness's signed position, passed as holding
    cash,           \* the harness's cash, passed as money
    call,           \* arguments of the last update call, or NoCall
    locals,         \* local variables of the last update call
    ret,            \* outcome of the last update call on price_history
    retW,           \* outcome of the same call computed on the sliding window
    order_call,     \* arguments of the last OrderType constructor call
    order           \* the OrderType that call returned

vars ==
    <<price_history, window, inventory, cash, call, locals, ret, retW,
      order_call, order>>

----------------------------------------------------------------------------
(* Bounds of the model *)

MaxCalls == 22        \* update calls per behaviour
MaxChanges == 1       \* ticks at which the midpoint differs from the previous one
MaxTime == 10         \* timestamps handed to the OrderType constructors

----------------------------------------------------------------------------
(* Exact rational arithmetic standing for Python's float operators *)

Abs(x) == IF x < 0 THEN -x ELSE x

Min(a, b) == IF a <= b THEN a ELSE b

Max(a, b) == IF a >= b THEN a ELSE b

RECURSIVE GCD(_, _)
GCD(a, b) == IF b = 0 THEN a ELSE GCD(b, a % b)

Rat(n, d) ==
    LET g == GCD(Abs(n), Abs(d))
        s == IF d < 0 THEN -1 ELSE 1
    IN  <<(s * n) \div g, (s * d) \div g>>

RInt(n) == <<n, 1>>

RAdd(x, y) ==
    LET g == GCD(x[2], y[2])
    IN  Rat(x[1] * (y[2] \div g) + y[1] * (x[2] \div g), (x[2] \div g) * y[2])

RNeg(x) == <<-x[1], x[2]>>

RSub(x, y) == RAdd(x, RNeg(y))

RMul(x, y) ==
    LET g1 == GCD(Abs(x[1]), y[2])
        g2 == GCD(Abs(y[1]), x[2])
    IN  <<(x[1] \div g1) * (y[1] \div g2), (x[2] \div g2) * (y[2] \div g1)>>

\* x / y for y # 0 (a zero divisor raises before the quotient exists)
RDiv(x, y) == RMul(x, IF y[1] < 0 THEN <<-y[2], -y[1]>> ELSE <<y[2], y[1]>>)

RLt(x, y) ==
    LET g == GCD(x[2], y[2])
    IN  x[1] * (y[2] \div g) < y[1] * (x[2] \div g)

RLe(x, y) ==
    LET g == GCD(x[2], y[2])
    IN  x[1] * (y[2] \div g) <= y[1] * (x[2] \div g)

\* int(x): truncation toward zero
Trunc(x) == IF x[1] >= 0 THEN x[1] \div x[2] ELSE -((-x[1]) \div x[2])

----------------------------------------------------------------------------
(* OrderType *)

new_limit_order(from_time, to_time) ==
    [type |-> "limit", from_time |-> from_time, to_time |-> to_time]

new_market_order(timestamp) ==
    [type |-> "market", from_time |-> timestamp, to_time |-> timestamp]

----------------------------------------------------------------------------
(* SimpleMarketMaker.__init__ *)

window_size == 20

num_simulations == 30

max_position == 50

----------------------------------------------------------------------------
(* SimpleMarketMaker.simulate_future_price *)

\* history[-n:]
trailing(history, n) ==
    SubSeq(history, Max(1, Len(history) - n + 1), Len(history))

\* mutant: one entry too many, history[-(window_size + 1):]
returns_window_one_more(history) == trailing(history, window_size + 1)

\* mutant: two entries too many, history[-(window_size + 2):]
returns_window_two_more(history) == trailing(history, window_size + 2)

\* self.price_history[-self.window_size:]
returns_window(history) == trailing(history, window_size)

\* exp of np.diff(np.log(w)): the ratios of consecutive prices
return_ratios(w) ==
    SubSeq([i \in 1..(Len(w) - 1) |-> RDiv(w[i + 1], w[i])], 1, Len(w) - 1)

\* np.std(returns) = 0: all log returns are equal
zero_vol(ratios) == \A i \in DOMAIN ratios : ratios[i] = ratios[1]

\* exp(np.cumsum(random_walk))[-1] for the 3 increments drawn from
\* normal(drift, vol): with vol = 0 every increment is the drift, whose
\* exponential is the common ratio; otherwise any positive real, here the
\* factor `draw`
terminal_growth(ratios, draw) ==
    IF zero_vol(ratios)
    THEN RMul(ratios[1], RMul(ratios[1], ratios[1]))
    ELSE draw

(* The num_simulations terminal prices are kept as runs <<price, paths>>:   *)
(* mean and percentile do not depend on the order of the list.              *)

paths_in(runs) ==
    LET RECURSIVE count(_)
        count(k) == IF k = 0 THEN 0 ELSE count(k - 1) + runs[k][2]
    IN  count(Len(runs))

\* np.mean
mean(runs) ==
    LET RECURSIVE sum(_)
        sum(k) == IF k = 0
                  THEN RInt(0)
                  ELSE RAdd(sum(k - 1), RMul(runs[k][1], RInt(runs[k][2])))
    IN  RDiv(sum(Len(runs)), RInt(paths_in(runs)))

\* number of paths whose price is < v
paths_below(runs, v) ==
    LET RECURSIVE count(_)
        count(k) == IF k = 0
                    THEN 0
                    ELSE count(k - 1) + (IF RLt(runs[k][1], v) THEN runs[k][2] ELSE 0)
    IN  count(Len(runs))

\* number of paths whose price is <= v
paths_at_most(runs, v) ==
    LET RECURSIVE count(_)
        count(k) == IF k = 0
                    THEN 0
                    ELSE count(k - 1) + (IF RLe(runs[k][1], v) THEN runs[k][2] ELSE 0)
    IN  count(Len(runs))

\* the element of index k (from 0) of sorted(simulated_prices)
order_statistic(runs, k) ==
    CHOOSE v \in {runs[i][1] : i \in DOMAIN runs} :
        /\ paths_below(runs, v) <= k
        /\ k < paths_at_most(runs, v)

\* np.percentile(simulated_prices, q), linear interpolation between closest ranks
percentile(runs, q) ==
    LET n == paths_in(runs)
        pos == Rat(q * (n - 1), 100)
        lo == Trunc(pos)
        frac == RSub(pos, RInt(lo))
        a == order_statistic(runs, lo)
        b == order_statistic(runs, Min(lo + 1, n - 1))
    IN  RAdd(a, RMul(frac, RSub(b, a)))

\* mutant: >= for >
enough_history_from_window_size(history) == Len(history) >= window_size

\* len(self.price_history) > self.window_size
enough_history(history) == Len(history) > window_size

\* simulated_prices, for the growth factors drawn
simulated_prices_of(ratios, current_price, draws) ==
    SubSeq([k \in DOMAIN draws |->
               <<RMul(current_price, terminal_growth(ratios, draws[k][1])),
                 draws[k][2]>>],
           1, Len(draws))

\* np.mean(simulated_prices), np.percentile(simulated_prices, [25, 75])
forecast_of(simulated_prices) ==
    [expected_price |-> mean(simulated_prices),
     lower_bound |-> percentile(simulated_prices, 25),
     upper_bound |-> percentile(simulated_prices, 75),
     branch |-> "monte_carlo"]

simulate_future_price(history, current_price, draws) ==
    IF enough_history(history)
    THEN forecast_of(simulated_prices_of(return_ratios(returns_window(history)),
                                         current_price, draws))
    ELSE [expected_price |-> current_price,
          lower_bound |-> RMul(current_price, Rat(99, 100)),
          upper_bound |-> RMul(current_price, Rat(101, 100)),
          branch |-> "cold_start"]

----------------------------------------------------------------------------
(* SimpleMarketMaker.update *)

base_spread == Rat(3, 10)

base_size == 15

volatility_spread(price_range, mid_price) ==
    RMul(RDiv(price_range, mid_price), Rat(1, 2))

\* mutant: holding for abs(holding)
position_spread_signed(holding) ==
    RMul(RDiv(RInt(holding), RInt(max_position)), Rat(4, 10))

position_spread(holding) ==
    RMul(RDiv(RInt(Abs(holding)), RInt(max_position)), Rat(4, 10))

position_skew(holding) ==
    RMul(RDiv(RInt(-holding), RInt(max_position)), Rat(3, 10))

prediction_skew(expected_price, mid_price) ==
    RMul(RSub(expected_price, mid_price), Rat(2, 10))

\* mutant: >= for >, a flat position sized as long
long_position_or_flat(holding) == holding >= 0

\* if holding > 0:  # Long position
long_position(holding) == holding > 0

\* the four-way branch on the position and the predicted move
directional_sizes(holding, mid_price, expected_price, confidence_factor) ==
    LET wide == Trunc(RMul(RInt(base_size), RAdd(Rat(3, 2), confidence_factor)))
        half == Trunc(RMul(RInt(base_size), Rat(1, 2)))
    IN  IF long_position(holding)
        THEN IF RLt(expected_price, mid_price)
             THEN [bid_size |-> half, ask_size |-> wide]
             ELSE [bid_size |-> half, ask_size |-> base_size]
        ELSE IF RLt(mid_price, expected_price)
             THEN [bid_size |-> wide, ask_size |-> half]
             ELSE [bid_size |-> base_size, ask_size |-> half]

\* mutant: the override starts at 0.9 * max_position
position_limits_late(holding, sizes) ==
    IF RLt(RMul(RInt(max_position), Rat(9, 10)), RInt(Abs(holding)))
    THEN IF holding > 0
         THEN [bid_size |-> 5, ask_size |-> Max(sizes.ask_size, 30)]
         ELSE [bid_size |-> Max(sizes.bid_size, 30), ask_size |-> 5]
    ELSE sizes

\* the override of the sizes when |holding| > 0.7 * max_position
position_limits(holding, sizes) ==
    IF RLt(RMul(RInt(max_position), Rat(7, 10)), RInt(Abs(holding)))
    THEN IF holding > 0
         THEN [bid_size |-> 5, ask_size |-> Max(sizes.ask_size, 30)]
         ELSE [bid_size |-> Max(sizes.bid_size, 30), ask_size |-> 5]
    ELSE sizes

max_notional_of(money) == RMul(RInt(money), Rat(2, 10))

\* mutant: the quotient rounded away from zero
money_management_rounded_up(size, max_notional, price) ==
    Min(size, Trunc(RDiv(max_notional, price)) + 1)

\* min(size, int(max_notional / price)), for price # 0
money_management(size, max_notional, price) ==
    Min(size, Trunc(RDiv(max_notional, price)))

Raised(error) == [status |-> "raised", error |-> error]

NoLocals == [branch |-> "none"]

total_spread_of(price_range, mid_price, holding) ==
    RAdd(RAdd(base_spread, volatility_spread(price_range, mid_price)),
         position_spread(holding))

new_bid_of(mid_price, total_spread, holding, expected_price) ==
    RAdd(RAdd(RSub(mid_price, RDiv(total_spread, RInt(2))), position_skew(holding)),
         prediction_skew(expected_price, mid_price))

new_ask_of(mid_price, total_spread, holding, expected_price) ==
    RAdd(RAdd(RAdd(mid_price, RDiv(total_spread, RInt(2))), position_skew(holding)),
         prediction_skew(expected_price, mid_price))

\* lines 117-151, given the spread and the confidence factor: the prices and
\* the sizes before money management
prices_and_sizes(f, mid_price, holding, money, total_spread, confidence_factor) ==
    LET directional ==
            directional_sizes(holding, mid_price, f.expected_price, confidence_factor)
    IN  [branch |-> f.branch,
         mid_price |-> mid_price,
         expected_price |-> f.expected_price,
         lower_bound |-> f.lower_bound,
         upper_bound |-> f.upper_bound,
         total_spread |-> total_spread,
         confidence_factor |-> confidence_factor,
         new_bid |-> new_bid_of(mid_price, total_spread, holding, f.expected_price),
         new_ask |-> new_ask_of(mid_price, total_spread, holding, f.expected_price),
         directional |-> directional,
         limited |-> position_limits(holding, directional),
         max_notional |-> max_notional_of(money)]

\* lines 105-151 for the forecast f and mid_price # 0: the local variables
compose(f, mid_price, holding, money) ==
    LET price_range == RSub(f.upper_bound, f.lower_bound)
    IN  prices_and_sizes(f, mid_price, holding, money,
                         total_spread_of(price_range, mid_price, holding),
                         RDiv(price_range, mid_price))

\* lines 152-155 for the locals l: the clamped sizes and the returned tuple,
\* or the exception of a division by zero (ZeroDivisionError on Python
\* floats; on numpy floats the quotient is inf and int() raises OverflowError)
money_management_and_return(l, timestamp) ==
    IF l.new_bid[1] = 0 \/ l.new_ask[1] = 0
    THEN [ret |-> Raised("ZeroDivisionError"), locals |-> l]
    ELSE [ret |->
             [status |-> "returned",
              new_bid |-> l.new_bid,
              bid_size |-> money_management(l.limited.bid_size, l.max_notional, l.new_bid),
              new_ask |-> l.new_ask,
              ask_size |-> money_management(l.limited.ask_size, l.max_notional, l.new_ask),
              order |-> new_limit_order(timestamp, timestamp + 100)],
          locals |-> l]

\* lines 104-155: everything update does after the append, on the history
\* as it is after the append; the outcome and the values of the locals
quote(history, mid_price, holding, money, timestamp, draws) ==
    IF mid_price[1] = 0
    THEN [ret |-> Raised("ZeroDivisionError"), locals |-> NoLocals]
    ELSE money_management_and_return(
             compose(simulate_future_price(history, mid_price, draws),
                     mid_price, holding, money),
             timestamp)

mid_price_of(prev_bid_price, prev_ask_price) ==
    RDiv(RAdd(prev_bid_price, prev_ask_price), RInt(2))

\* self.price_history.append(mid_price)
append_price(history, mid_price) == Append(history, mid_price)

\* update, given the midpoint it computes first
update_at(history, mid_price, holding, money, timestamp, draws) ==
    [price_history |-> append_price(history, mid_price),
     outcome |-> quote(append_price(history, mid_price), mid_price,
                       holding, money, timestamp, draws)]

update(history, prev_bid_price, prev_ask_price, holding, money, timestamp, draws) ==
    update_at(history, mid_price_of(prev_bid_price, prev_ask_price),
              holding, money, timestamp, draws)

----------------------------------------------------------------------------
(* The history as a sliding window of capacity window_size + 1 *)

window_capacity == window_size + 1

push(w, mid_price) ==
    LET a == Append(w, mid_price)
    IN  IF Len(a) > window_capacity THEN Tail(a) ELSE a

update_window_at(w, mid_price, holding, money, timestamp, draws) ==
    [window |-> push(w, mid_price),
     outcome |-> quote(push(w, mid_price), mid_price, holding, money, timestamp, draws)]

update_window(w, prev_bid_price, prev_ask_price, holding, money, timestamp, draws) ==
    update_window_at(w, mid_price_of(prev_bid_price, prev_ask_price),
                     holding, money, timestamp, draws)

----------------------------------------------------------------------------
(* The harness: what it passes to update, and the random source *)

Quotes ==
    { [bid |-> Rat(3, 20), ask |-> Rat(4, 25)],
      [bid |-> RInt(99), ask |-> RInt(101)] }

Holdings == {-40, 0, 10, 40}

Moneys == {0, 1000, 100000}

\* the terminal growth factors of the num_simulations paths, as runs
\* <<factor, number of paths>>
AllDown == << <<Rat(1, 2), num_simulations>> >>

Mixed == << <<Rat(1, 2), 8>>, <<RInt(2), 8>>, <<RInt(1), num_simulations - 16>> >>

MostlyFlat == << <<RInt(1), num_simulations - 8>>, <<Rat(1, 2), 8>> >>

DrawSet == {AllDown, Mixed, MostlyFlat}

\* np.random is consulted in the Monte Carlo branch only
DrawsFor(history) == IF enough_history(history) THEN DrawSet ELSE {AllDown}

Changes(history) ==
    Cardinality({i \in 1..(Len(history) - 1) : history[i] # history[i + 1]})

NoCall == [op |-> "none"]

NoRet == [status |-> "none"]

NoOrder == [type |-> "none"]

Init ==
    /\ price_history = <<>>
    /\ window = <<>>
    /\ inventory \in Holdings
    /\ cash \in Moneys
    /\ call = NoCall
    /\ locals = NoLocals
    /\ ret = NoRet
    /\ retW = NoRet
    /\ order_call = NoCall
    /\ order = NoOrder

\* one tick: the harness, having settled the previous quote, calls update with
\* the previous interval's prices, its inventory and cash, and the tick number;
\* an exception ends the run
Update ==
    /\ Len(price_history) < MaxCalls
    /\ ret.status = "none"
    /\ \E q \in Quotes :
          \E timestamp \in {Len(price_history)},
             after \in {append_price(price_history, mid_price_of(q.bid, q.ask))} :
              /\ Changes(after) <= MaxChanges
              /\ \E draws \in DrawsFor(after) :
                    \E r \in {update(price_history, q.bid, q.ask,
                                     inventory, cash, timestamp, draws)},
                       rW \in {update_window(window, q.bid, q.ask,
                                             inventory, cash, timestamp, draws)} :
                        /\ price_history' = r.price_history
                        /\ ret' = r.outcome.ret
                        /\ locals' = r.outcome.locals
                        /\ window' = rW.window
                        /\ retW' = rW.outcome.ret
                        /\ call' = [op |-> "update",
                                    prev_bid_price |-> q.bid,
                                    prev_ask_price |-> q.ask,
                                    holding |-> inventory,
                                    money |-> cash,
                                    timestamp |-> timestamp]
    /\ UNCHANGED <<inventory, cash, order_call, order>>

\* between two ticks the harness fills the quote it was handed (or not):
\* inventory and cash take their new values, the quote is discarded
Settle ==
    /\ ret.status = "returned"
    /\ \E h \in Holdings, m \in Moneys :
          /\ inventory' = h
          /\ cash' = m
    /\ call' = NoCall
    /\ locals' = NoLocals
    /\ ret' = NoRet
    /\ retW' = NoRet
    /\ UNCHANGED <<price_history, window, order_call, order>>

Next == Update \/ Settle

Spec == Init /\ [][Next]_vars

----------------------------------------------------------------------------
(* The OrderType constructors called on their own *)

NewLimitOrder ==
    /\ \E from_time \in 0..MaxTime, to_time \in 0..MaxTime :
          /\ order' = new_limit_order(from_time, to_time)
          /\ order_call' = [op |-> "new_limit_order",
                            from_time |-> from_time, to_time |-> to_time]
    /\ UNCHANGED <<price_history, window, inventory, cash, call, locals, ret, retW>>

NewMarketOrder ==
    /\ \E timestamp \in 0..MaxTime :
          /\ order' = new_market_order(timestamp)
          /\ order_call' = [op |-> "new_market_order", timestamp |-> timestamp]
    /\ UNCHANGED <<price_history, window, inventory, cash, call, locals, ret, retW>>

NextOrder == NewLimitOrder \/ NewMarketOrder

SpecOrder == Init /\ [][NextOrder]_vars

----------------------------------------------------------------------------
(* Properties *)

Returned == call.op = "update" /\ ret.status = "returned"

\* the preconditions of update: prev_bid_price > 0,
\* prev_ask_price >= prev_bid_price, money >= 0
ValidCall ==
    /\ call.op = "update"
    /\ RLt(RInt(0), call.prev_bid_price)
    /\ RLe(call.prev_bid_price, call.prev_ask_price)
    /\ call.money >= 0

\* int(0.2 * money / price), the bound the capital clamp puts on a size
CapOf(price) == Trunc(RDiv(Rat(call.money, 5), price))

C2_SizesNonNegative ==
    (Returned /\ ValidCall) =>
        /\ ret.bid_size \in Nat
        /\ ret.ask_size \in Nat

\* C3: a returned quote keeps each order's notional within 20% of cash:
\* bid_size * new_bid <= 0.2 * money and ask_size * new_ask <= 0.2 * money.
C3_NotionalBounded ==
    (Returned /\ ValidCall) =>
        /\ RLe(RMul(RInt(ret.bid_size), ret.new_bid), Rat(call.money, 5))
        /\ RLe(RMul(RInt(ret.ask_size), ret.new_ask), Rat(call.money, 5))

\* the capital clamp cut a positive size down
C3_Witness ==
    /\ Returned /\ ValidCall
    /\ 0 < ret.bid_size /\ ret.bid_size < locals.limited.bid_size
    /\ 0 < ret.ask_size /\ ret.ask_size < locals.limited.ask_size

\* C4 (as claimed): with |holding| > 35 the returned sizes are 5 on the
\* inventory-increasing side and >= 30 on the other
C4_BreakerOnReturnedSizes ==
    (Returned /\ Abs(call.holding) > 35) =>
        /\ call.holding > 0 => (ret.bid_size = 5 /\ ret.ask_size >= 30)
        /\ call.holding < 0 => (ret.ask_size = 5 /\ ret.bid_size >= 30)

\* C4 (amended): with |holding| > 35 the override wins over the directional
\* sizes and the capital clamp is applied to its result: the
\* inventory-increasing size is min(5, cap) and the other one is min(a, cap')
\* for some a >= 30, cap and cap' being int(0.2 * money / price) of each side.
C4_BreakerThenClamp ==
    (Returned /\ Abs(call.holding) > 35) =>
        /\ call.holding > 0 =>
              /\ ret.bid_size = Min(5, CapOf(ret.new_bid))
              /\ ret.ask_size <= CapOf(ret.new_ask)
              /\ ret.ask_size >= 30 \/ ret.ask_size = CapOf(ret.new_ask)
        /\ call.holding < 0 =>
              /\ ret.ask_size = Min(5, CapOf(ret.new_ask))
              /\ ret.bid_size <= CapOf(ret.new_bid)
              /\ ret.bid_size >= 30 \/ ret.bid_size = CapOf(ret.new_bid)

\* a long position beyond the limit, the clamp not binding: the directional
\* sizes (7, 15 or more) are replaced by 5 and at least 30
C4_Witness ==
    /\ Returned
    /\ call.holding > 35
    /\ locals.directional.bid_size = 7
    /\ ret.bid_size = 5
    /\ ret.ask_size >= 30

\* C5: on a fresh instance the k-th update call (k = len(price_history) after
\* its append) takes the degenerate forecast iff k <= 20, and that forecast
\* is (mid, [mid * 0.99, mid * 1.01]); from the 21st call on the Monte Carlo
\* branch is taken.
C5_ColdStartIffAtMostWindow ==
    (call.op = "update" /\ locals.branch # "none") =>
        /\ locals.branch = "cold_start" <=> Len(price_history) <= 20
        /\ locals.branch = "monte_carlo" <=> Len(price_history) >= 21
        /\ locals.branch = "cold_start" =>
              /\ locals.expected_price = locals.mid_price
              /\ locals.lower_bound = RMul(locals.mid_price, Rat(99, 100))
              /\ locals.upper_bound = RMul(locals.mid_price, Rat(101, 100))

\* the 21st call, the first one forecast by simulation
C5_Witness ==
    /\ call.op = "update"
    /\ Len(price_history) = 21
    /\ locals.branch = "monte_carlo"

\* the last 20 entries of the history are all p
TrailingAll(p) ==
    \A i \in 1..Len(price_history) :
        i > Len(price_history) - 20 => price_history[i] = p

C7_OrderWindowWellFormed ==
    /\ order_call.op = "new_market_order" =>
          /\ order.from_time = order_call.timestamp
          /\ order.to_time = order_call.timestamp
    /\ order_call.op = "new_limit_order" =>
          IF order_call.to_time < order_call.from_time
          THEN order = [type |-> "InvalidOrderWindow"]
          ELSE /\ order.from_time = order_call.from_time
               /\ order.to_time = order_call.to_time
               /\ order.from_time <= order.to_time

\* the call divided by a midpoint or a composed price that is <= 0
Degenerate(l) ==
    \/ l.branch = "none"
    \/ l.mid_price[1] <= 0
    \/ l.new_bid[1] <= 0
    \/ l.new_ask[1] <= 0

\* C8 (as claimed): an update call whose midpoint, new_bid or new_ask is
\* <= 0 raises, returns no quote, and leaves the price history as it was
C8_DegenerateRejected ==
    [][(call'.op = "update" /\ Degenerate(locals')) =>
          (ret'.status = "raised" /\ price_history' = price_history)]_vars

\* the sizes the claim's table gives, from the arguments and the forecast
C9_Table ==
    LET wide == Trunc(RMul(RInt(15),
                           RAdd(Rat(3, 2),
                                RDiv(RSub(locals.upper_bound, locals.lower_bound),
                                     locals.mid_price))))
    IN  IF call.holding > 0 /\ RLt(locals.expected_price, locals.mid_price)
        THEN [bid_size |-> 7, ask_size |-> wide]
        ELSE IF call.holding > 0
        THEN [bid_size |-> 7, ask_size |-> 15]
        ELSE IF RLt(locals.mid_price, locals.expected_price)
        THEN [bid_size |-> wide, ask_size |-> 7]
        ELSE [bid_size |-> 15, ask_size |-> 7]

\* C9: with |holding| <= 35 and the capital clamp not binding, the returned
\* sizes are those of the four-way table (a flat position sized as short);
\* in cold start they are (bid 7, ask 15) when long, (bid 15, ask 7) otherwise.
C9_DirectionalSizing ==
    (/\ Returned
     /\ Abs(call.holding) <= 35
     /\ CapOf(ret.new_bid) >= C9_Table.bid_size
     /\ CapOf(ret.new_ask) >= C9_Table.ask_size) =>
        /\ ret.bid_size = C9_Table.bid_size
        /\ ret.ask_size = C9_Table.ask_size
        /\ locals.branch = "cold_start" =>
              IF call.holding > 0
              THEN ret.bid_size = 7 /\ ret.ask_size = 15
              ELSE ret.bid_size = 15 /\ ret.ask_size = 7

\* a flat position with a forecast above the midpoint: the bid is widened by
\* the confidence factor, beyond trunc(15 * 1.5) = 22
C9_Witness ==
    /\ Returned
    /\ call.holding = 0
    /\ RLt(locals.mid_price, locals.expected_price)
    /\ ret.bid_size > 22
    /\ ret.ask_size = 7

\* C10: every update call appends exactly the midpoint to the history and
\* nothing else changes it, and the same call on the sliding window of
\* capacity window_size + 1 gives the same outcome.
C10_WindowEquivalent ==
    [][/\ call'.op = "update" =>
             price_history' =
                 Append(price_history,
                        RDiv(RAdd(call'.prev_bid_price, call'.prev_ask_price),
                             RInt(2)))
       /\ call'.op # "update" => price_history' = price_history
       /\ retW' = ret'
       /\ Len(window') <= 21]_vars

\* the window has dropped its oldest entry, which differed from the others,
\* and the call was forecast by simulation
C10_Witness ==
    /\ Returned
    /\ Len(price_history) > 21
    /\ Len(window) = 21
    /\ price_history[1] # price_history[2]
    /\ locals.branch = "monte_carlo"

====
